---------------------------- MODULE Spec2Model ----------------------------
(***************************************************************************)
(* A model of the Creep sprite of creeps.py: its ALIVE / EXPLODING / DEAD  *)
(* life cycle, the movement and wall bounce of update(), the random turns  *)
(* of _change_direction() and the hit test and health loss of              *)
(* mouse_click_event().                                                    *)
(*                                                                         *)
(* Numbers.  Directions that are multiples of 45 degrees have components   *)
(* in {0, +-1, +-sqrt(2)/2}; with speed 1/SpeedDen px/ms and whole         *)
(* milliseconds every coordinate is of the form (a + b*sqrt(2)) / k.  A    *)
(* pair <<a, b>> stands for a + b*sqrt(2); direction components are in     *)
(* halves, positions in units of 1/PosScale pixels.  All                   *)
(* comparisons are decided exactly, in integers.                           *)
(***************************************************************************)
EXTENDS Integers, Sequences, FiniteSets, TLC

\* ------------------------------------------------------------------ bounds
FieldLeft == 10
FieldTop == 10
FieldW == 30
FieldH == 26
BaseW == 4
BaseH == 3
MaxUpdates == 5

\* ------------------------------------------------------- program constants
InitHealth == 15
HitDamage == 3
SpeedDen == 20
TurnLow == 400
TurnHigh == 500
ScrollPeriod == 100
StartDelay == 300
NumExplosionImages == 2

ALIVE == 0
EXPLODING == 1
DEAD == 2

\* direction components are in halves, so positions are in 1/(2*SpeedDen) px
PosScale == 2 * SpeedDen

\* time deltas handed to update(), in ms
DTs == {250}

\* outcomes of randint(TurnLow, TurnHigh): both ends and the middle, which
\* is every way the counters reachable with DTs compare to the threshold
Thresholds == {TurnLow, (TurnLow + TurnHigh) \div 2, TurnHigh}

\* ------------------------------------------------- arithmetic in Z[sqrt 2]
\* u + v*sqrt(2) < 0
Sq2Neg(u, v) ==
    IF u >= 0 /\ v >= 0 THEN FALSE
    ELSE IF u <= 0 /\ v <= 0 THEN TRUE
    ELSE IF u < 0 THEN u * u > 2 * v * v
    ELSE 2 * v * v > u * u

\* position coordinate c (units of 1/PosScale px) < n px, > n px
CoordLt(c, n) == Sq2Neg(c[1] - PosScale * n, c[2])
CoordGt(c, n) == Sq2Neg(PosScale * n - c[1], -c[2])
CoordOf(n) == <<PosScale * n, 0>>

\* the largest whole n in lo..hi with n px <= c, by bisection
RECURSIVE FloorBetween(_, _, _)
FloorBetween(c, lo, hi) ==
    IF lo >= hi THEN lo
    ELSE LET mid == (lo + hi + 1) \div 2
         IN  IF CoordLt(c, mid) THEN FloorBetween(c, lo, mid - 1)
             ELSE FloorBetween(c, mid, hi)

\* int(c - k): the coordinate c minus k px, truncated toward zero
CoordMinusInt(c, k) ==
    LET d == <<c[1] - PosScale * k, c[2]>>
        span == ((IF d[1] >= 0 THEN d[1] ELSE -d[1])
                 + 2 * (IF d[2] >= 0 THEN d[2] ELSE -d[2])) \div PosScale + 1
        floor == FloorBetween(d, -span, span)
    IN  IF CoordLt(d, 0) /\ d # CoordOf(floor) THEN floor + 1 ELSE floor


\* ------------------------------------------------------------------ vec2d
\* (x + y*sqrt(2))/2 times sqrt(2)/2, the sine and cosine of 45 degrees
MulHalfSqrt2(c) == <<c[2], c[1] \div 2>>
CNeg(c) == <<-c[1], -c[2]>>
CAdd(c, d) == <<c[1] + d[1], c[2] + d[2]>>
CSub(c, d) == <<c[1] - d[1], c[2] - d[2]>>
CScale(c, k) == <<c[1] * k, c[2] * k>>

\* vec2d.rotate(45 * k), k in -1..1: x' = x*cos - y*sin, y' = x*sin + y*cos
Rotate(d, k) ==
    IF k = 0 THEN d
    ELSE [x |-> MulHalfSqrt2(CSub(d.x, CScale(d.y, k))),
          y |-> MulHalfSqrt2(CAdd(CScale(d.x, k), d.y))]

\* vec2d(v).normalized() for v with whole components in -1..1: v / |v|
Normalized(v) ==
    LET len2 == v[1] * v[1] + v[2] * v[2]
    IN  IF len2 = 0 THEN [x |-> <<0, 0>>, y |-> <<0, 0>>]
        ELSE IF len2 = 1 THEN [x |-> <<2 * v[1], 0>>, y |-> <<2 * v[2], 0>>]
        ELSE [x |-> <<0, v[1]>>, y |-> <<0, v[2]>>]

\* |d|^2 = 1, for d in halves: (x1 + x2 r)^2 + (y1 + y2 r)^2 = 4, r = sqrt 2
UnitLength(d) ==
    /\ d.x[1] * d.x[1] + 2 * d.x[2] * d.x[2]
       + d.y[1] * d.y[1] + 2 * d.y[2] * d.y[2] = 4
    /\ d.x[1] * d.x[2] + d.y[1] * d.y[2] = 0

\* the eight directions whose angle is a multiple of 45 degrees
InitDirections == {v \in (-1..1) \X (-1..1) : v # <<0, 0>>}

\* ------------------------------------------------------ pygame collaborators
\* size of pygame.transform.rotate(base_image, -direction.angle): the
\* bounding box of the rotated w x h image, whole pixels
RotatedSize(base, d) ==
    IF d.y = <<0, 0>> THEN base
    ELSE IF d.x = <<0, 0>> THEN <<base[2], base[1]>>
    ELSE LET s == base[1] + base[2]
             n == CHOOSE m \in 0..s : 2 * m * m >= s * s
                                      /\ \A j \in 0..s : 2 * j * j >= s * s => m <= j
         IN  <<n, n>>

\* x / 2 on C ints: the quotient is truncated toward zero
TruncHalf(x) == IF x >= 0 THEN x \div 2 ELSE -((-x) \div 2)

\* Rect.inflate(dx, dy): grows the rect by dx, dy around its centre
Inflate(r, dx, dy) ==
    [left |-> r.left - TruncHalf(dx), top |-> r.top - TruncHalf(dy),
     width |-> r.width + dx, height |-> r.height + dy]
RectRight(r) == r.left + r.width
RectBottom(r) == r.top + r.height

\* SimpleAnimation(screen, pos, images, 100, 300)
NoAnimation == [exists |-> FALSE, frame_ms |-> 0, delay_ms |-> 0, frames |-> 0,
                elapsed |-> 0, active |-> FALSE]
NewAnimation(frame_ms, delay_ms, frames) ==
    [exists |-> TRUE, frame_ms |-> frame_ms, delay_ms |-> delay_ms,
     frames |-> frames, elapsed |-> 0, active |-> TRUE]
AnimationUpdate(a, dt) ==
    IF ~a.active THEN a
    ELSE LET e == a.elapsed + dt
         IN  [a EXCEPT !.elapsed = e,
                       !.active = e < a.delay_ms + a.frame_ms * a.frames]


\* ------------------------------------------------------------------ Creep
FIELD_RECT == [left |-> FieldLeft, top |-> FieldTop,
               width |-> FieldW, height |-> FieldH]
NoSize == <<>>

\* Creep.__init__: image_w, image_h and explode_animation are not set yet
NewCreep(field, base, init_position, init_direction) ==
    [field |-> field, base_image |-> base,
     pos |-> [x |-> CoordOf(init_position[1]), y |-> CoordOf(init_position[2])],
     direction |-> Normalized(init_direction),
     state |-> ALIVE, health |-> InitHealth,
     counter |-> 0, image_size |-> NoSize,
     explode_animation |-> NoAnimation, in_group |-> TRUE]

is_alive(c) == c.state \in {ALIVE, EXPLODING}

\* _change_direction without the reset of the counter
ChangeDirectionNoReset(c, time_passed, thr, k) ==
    LET n == c.counter + time_passed
    IN  IF n > thr
        THEN [c EXCEPT !.direction = Rotate(c.direction, k), !.counter = n]
        ELSE [c EXCEPT !.counter = n]

\* _change_direction: thr is randint(400, 500), k is randint(-1, 1)
ChangeDirection(c, time_passed, thr, k) ==
    LET n == c.counter + time_passed
    IN  IF n > thr
        THEN [c EXCEPT !.direction = Rotate(c.direction, k), !.counter = 0]
        ELSE [c EXCEPT !.counter = n]

\* pos += direction * speed * time_passed
Displace(c, time_passed) ==
    [c EXCEPT !.pos = [x |-> CAdd(c.pos.x, CScale(c.direction.x, time_passed)),
                       y |-> CAdd(c.pos.y, CScale(c.direction.y, time_passed))]]

\* image = rotate(base_image, -angle); image_w, image_h = image.get_size()
Resize(c) == [c EXCEPT !.image_size = RotatedSize(c.base_image, c.direction)]

\* the wall bounce turning the creep round without putting it on the wall
WallBounceNoClamp(c) ==
    LET b == Inflate(c.field, -c.image_size[1], -c.image_size[2])
    IN  IF CoordLt(c.pos.x, b.left) \/ CoordGt(c.pos.x, RectRight(b))
        THEN [c EXCEPT !.direction.x = CNeg(c.direction.x)]
        ELSE IF CoordLt(c.pos.y, b.top) \/ CoordGt(c.pos.y, RectBottom(b))
        THEN [c EXCEPT !.direction.y = CNeg(c.direction.y)]
        ELSE c

\* the wall bounce putting the creep on the wall without turning it round
WallBounceNoFlip(c) ==
    LET b == Inflate(c.field, -c.image_size[1], -c.image_size[2])
    IN  IF CoordLt(c.pos.x, b.left)
        THEN [c EXCEPT !.pos.x = CoordOf(b.left)]
        ELSE IF CoordGt(c.pos.x, RectRight(b))
        THEN [c EXCEPT !.pos.x = CoordOf(RectRight(b))]
        ELSE IF CoordLt(c.pos.y, b.top)
        THEN [c EXCEPT !.pos.y = CoordOf(b.top)]
        ELSE IF CoordGt(c.pos.y, RectBottom(b))
        THEN [c EXCEPT !.pos.y = CoordOf(RectBottom(b))]
        ELSE c

\* the wall bounce with the Y tests ahead of the X tests
WallBounceYFirst(c) ==
    LET b == Inflate(c.field, -c.image_size[1], -c.image_size[2])
    IN  IF CoordLt(c.pos.y, b.top)
        THEN [c EXCEPT !.pos.y = CoordOf(b.top),
                       !.direction.y = CNeg(c.direction.y)]
        ELSE IF CoordGt(c.pos.y, RectBottom(b))
        THEN [c EXCEPT !.pos.y = CoordOf(RectBottom(b)),
                       !.direction.y = CNeg(c.direction.y)]
        ELSE IF CoordLt(c.pos.x, b.left)
        THEN [c EXCEPT !.pos.x = CoordOf(b.left),
                       !.direction.x = CNeg(c.direction.x)]
        ELSE IF CoordGt(c.pos.x, RectRight(b))
        THEN [c EXCEPT !.pos.x = CoordOf(RectRight(b)),
                       !.direction.x = CNeg(c.direction.x)]
        ELSE c

\* the wall bounce with "direction.x = -1" and so on for "direction.x *= -1":
\* the heading component is set to point away from the wall
WallBounceSetsSign(c) ==
    LET b == Inflate(c.field, -c.image_size[1], -c.image_size[2])
    IN  IF CoordLt(c.pos.x, b.left)
        THEN [c EXCEPT !.pos.x = CoordOf(b.left), !.direction.x = <<2, 0>>]
        ELSE IF CoordGt(c.pos.x, RectRight(b))
        THEN [c EXCEPT !.pos.x = CoordOf(RectRight(b)), !.direction.x = <<-2, 0>>]
        ELSE IF CoordLt(c.pos.y, b.top)
        THEN [c EXCEPT !.pos.y = CoordOf(b.top), !.direction.y = <<2, 0>>]
        ELSE IF CoordGt(c.pos.y, RectBottom(b))
        THEN [c EXCEPT !.pos.y = CoordOf(RectBottom(b)), !.direction.y = <<-2, 0>>]
        ELSE c

\* the if / elif chain of update: at most one of the four walls acts
WallBounce(c) ==
    LET b == Inflate(c.field, -c.image_size[1], -c.image_size[2])
    IN  IF CoordLt(c.pos.x, b.left)
        THEN [c EXCEPT !.pos.x = CoordOf(b.left),
                       !.direction.x = CNeg(c.direction.x)]
        ELSE IF CoordGt(c.pos.x, RectRight(b))
        THEN [c EXCEPT !.pos.x = CoordOf(RectRight(b)),
                       !.direction.x = CNeg(c.direction.x)]
        ELSE IF CoordLt(c.pos.y, b.top)
        THEN [c EXCEPT !.pos.y = CoordOf(b.top),
                       !.direction.y = CNeg(c.direction.y)]
        ELSE IF CoordGt(c.pos.y, RectBottom(b))
        THEN [c EXCEPT !.pos.y = CoordOf(RectBottom(b)),
                       !.direction.y = CNeg(c.direction.y)]
        ELSE c

\* the EXPLODING branch of update, looking at the animation after its
\* update: the creep dies in the call that ends the animation
UpdateExplodingSameCall(c, time_passed) ==
    LET a == AnimationUpdate(c.explode_animation, time_passed)
    IN  IF a.active
        THEN [c EXCEPT !.explode_animation = a]
        ELSE [c EXCEPT !.explode_animation = a, !.state = DEAD,
                       !.in_group = FALSE]

\* the EXPLODING branch of update without kill(): the dead creep stays in
\* the group
UpdateExplodingNoKill(c, time_passed) ==
    IF c.explode_animation.active
    THEN [c EXCEPT !.explode_animation = AnimationUpdate(@, time_passed)]
    ELSE [c EXCEPT !.state = DEAD]

\* the EXPLODING branch of update
UpdateExploding(c, time_passed) ==
    IF c.explode_animation.active
    THEN [c EXCEPT !.explode_animation = AnimationUpdate(@, time_passed)]
    ELSE [c EXCEPT !.state = DEAD, !.in_group = FALSE]

\* Creep.update without the test for DEAD: a dead creep moves on
CreepUpdateNoStateCheck(c, time_passed, thr, k) ==
    IF c.state = EXPLODING THEN UpdateExploding(c, time_passed)
    ELSE WallBounce(Displace(Resize(ChangeDirection(c, time_passed, thr, k)),
                             time_passed))

\* Creep.update
CreepUpdate(c, time_passed, thr, k) ==
    IF c.state = ALIVE
    THEN WallBounce(Displace(Resize(ChangeDirection(c, time_passed, thr, k)),
                             time_passed))
    ELSE IF c.state = EXPLODING THEN UpdateExploding(c, time_passed)
    ELSE c

\* top left corner of the sprite as _point_is_inside computes it; the file
\* is Python 2 (it mixes tabs and spaces), so image_w / 2 is a whole number
SpriteOrigin(c) ==
    <<CoordMinusInt(c.pos.x, c.image_size[1] \div 2),
      CoordMinusInt(c.pos.y, c.image_size[2] \div 2)>>

\* _point_is_inside: get_at raises IndexError outside the image; opaque is
\* whether the pixel under the point has alpha > 0
PointIsInside(c, point, opaque) ==
    LET o == SpriteOrigin(c)
        ix == point[1] - o[1]
        iy == point[2] - o[2]
    IN  IF ix < 0 \/ ix >= c.image_size[1] \/ iy < 0 \/ iy >= c.image_size[2]
        THEN FALSE
        ELSE opaque

Max(a, b) == IF a >= b THEN a ELSE b

\* _explode going straight to DEAD
ExplodeToDead(c) ==
    [c EXCEPT !.state = DEAD,
              !.explode_animation =
                  NewAnimation(ScrollPeriod, StartDelay, NumExplosionImages)]

\* _explode that also restarts the turn counter
ExplodeResetsCounter(c) ==
    [c EXCEPT !.state = EXPLODING, !.counter = 0,
              !.explode_animation =
                  NewAnimation(ScrollPeriod, StartDelay, NumExplosionImages)]

\* _explode
Explode(c) ==
    [c EXCEPT !.state = EXPLODING,
              !.explode_animation =
                  NewAnimation(ScrollPeriod, StartDelay, NumExplosionImages)]

\* _decrease_health that never explodes
DecreaseHealthNoExplode(c, n, is_paused) ==
    IF is_paused THEN c
    ELSE [c EXCEPT !.health = Max(0, c.health - n)]

\* _decrease_health without the floor at 0
DecreaseHealthNoFloor(c, n, is_paused) ==
    IF is_paused THEN c
    ELSE LET d == [c EXCEPT !.health = c.health - n]
         IN  IF d.health = 0 THEN Explode(d) ELSE d

\* _decrease_health without the pause guard
DecreaseHealthIgnorePause(c, n, is_paused) ==
    LET d == [c EXCEPT !.health = Max(0, c.health - n)]
    IN  IF d.health = 0 THEN Explode(d) ELSE d

\* _decrease_health
DecreaseHealth(c, n, is_paused) ==
    IF is_paused THEN c
    ELSE LET d == [c EXCEPT !.health = Max(0, c.health - n)]
         IN  IF d.health = 0 THEN Explode(d) ELSE d

\* mouse_click_event, once image_w and image_h exist
MouseClickEvent(c, point, is_paused, opaque) ==
    IF PointIsInside(c, point, opaque)
    THEN DecreaseHealth(c, HitDamage, is_paused)
    ELSE c


\* ------------------------------------------------------------ the machine
\* one creep and the calls made on it
VARIABLES creep, last, updates
\* the locals of run_game: the sprite group, the pause flag, the clock
\* readings, the time on the message board, the position in the loop body
VARIABLES creeps, paused, time_passed, cumulative_time, last_time, time_msg,
          frames, step, event
gamevars == <<creeps, paused, time_passed, cumulative_time, last_time,
              time_msg, frames, step, event>>
vars == <<creep, last, updates, creeps, paused, time_passed, cumulative_time,
          last_time, time_msg, frames, step, event>>

\* start positions: run_game draws them from the whole field, edges
\* included; a corner and the middle
InitPositions == {<<FieldLeft, FieldTop>>,
                  <<FieldLeft + FieldW \div 2, FieldTop + FieldH \div 2>>}

\* start headings: run_game draws each component from {-1, 1}
GameDirections == {v \in InitDirections : v[1] # 0 /\ v[2] # 0}

\* last: the call that produced the current state, with the values update
\* passes through (heading after _change_direction, position after the
\* displacement) and what mouse_click_event found; outside says that the
\* clicked point was strictly outside the box the sprite is drawn in
NoCall == [op |-> "new", dt |-> 0, turned |-> FALSE, heading |-> 0,
           displaced |-> 0, paused |-> FALSE, inside |-> FALSE,
           outside |-> FALSE, raised |-> FALSE]

\* the creeps of the group: two of the N_CREEPS of run_game
CreepIds == {1, 2}

\* event: the step of the loop body that produced the current state, and
\* the creeps it reached (hit by the click, or updated)
NoEvent == [op |-> "start", who |-> {}]

\* nothing is on the message board before the first frame is drawn
NoMessage == -1

\* run_game before its main loop: one creep starts in the middle of the
\* field and one in its corner; last_time has no value before the first tick
GameStart ==
    /\ creeps = [i \in CreepIds |->
                    IF i = 1
                    THEN NewCreep(FIELD_RECT, <<BaseW, BaseH>>,
                                  <<FieldLeft + FieldW \div 2,
                                    FieldTop + FieldH \div 2>>, <<1, 1>>)
                    ELSE NewCreep(FIELD_RECT, <<BaseW, BaseH>>,
                                  <<FieldLeft, FieldTop>>, <<-1, 1>>)]
    /\ paused = FALSE
    /\ time_passed = 0
    /\ cumulative_time = 0
    /\ last_time = 0
    /\ time_msg = NoMessage
    /\ frames = 0
    /\ step = "tick"
    /\ event = NoEvent

Init ==
    /\ \E p \in InitPositions, d \in GameDirections :
          creep = NewCreep(FIELD_RECT, <<BaseW, BaseH>>, p, d)
    /\ last = NoCall
    /\ updates = 0
    /\ GameStart

\* creep.update(time_passed)
Update(dt, thr, k) ==
    LET turned == ChangeDirection(creep, dt, thr, k)
        moved == Displace(Resize(turned), dt)
    IN  /\ updates < MaxUpdates
        /\ updates' = updates + 1
        /\ UNCHANGED gamevars
        /\ creep' = CreepUpdate(creep, dt, thr, k)
        /\ last' = IF creep.state = ALIVE
                   THEN [NoCall EXCEPT !.op = "update", !.dt = dt,
                                       !.turned = (creep.counter + dt > thr),
                                       !.heading = turned.direction,
                                       !.displaced = moved.pos]
                   ELSE [NoCall EXCEPT !.op = "update", !.dt = dt]

\* clicks at the sprite: inside it at two opposite corners, over an opaque
\* or a transparent pixel, and just outside each of its four sides, where
\* the image has no pixel
ClickInputs ==
    LET size == IF creep.image_size = NoSize THEN creep.base_image
                ELSE creep.image_size
        ox == CoordMinusInt(creep.pos.x, size[1] \div 2)
        oy == CoordMinusInt(creep.pos.y, size[2] \div 2)
    IN  ({<<ox, oy>>, <<ox + size[1] - 1, oy + size[2] - 1>>} \X BOOLEAN)
        \cup ({<<ox - 1, oy>>, <<ox + size[1], oy>>,
               <<ox, oy - 1>>, <<ox, oy + size[2]>>} \X {FALSE})

\* the point is strictly outside the box of the sprite: the image of the
\* creep (base_image until the first update) centred on pos, as draw places it
OutsideBox(c, point) ==
    LET size == IF c.image_size = NoSize THEN c.base_image ELSE c.image_size
        ox == CoordMinusInt(c.pos.x, size[1] \div 2)
        oy == CoordMinusInt(c.pos.y, size[2] \div 2)
    IN  \/ point[1] < ox \/ point[1] >= ox + size[1]
        \/ point[2] < oy \/ point[2] >= oy + size[2]

\* creep.mouse_click_event(point, is_paused); before the first update the
\* creep has no image_w and the call raises AttributeError
Click(point, is_paused, opaque) ==
    /\ UNCHANGED updates
    /\ UNCHANGED gamevars
    /\ IF creep.image_size = NoSize
       THEN /\ creep' = creep
            /\ last' = [NoCall EXCEPT !.op = "click", !.paused = is_paused,
                                      !.outside = OutsideBox(creep, point),
                                      !.raised = TRUE]
       ELSE /\ creep' = MouseClickEvent(creep, point, is_paused, opaque)
            /\ last' = [NoCall EXCEPT !.op = "click", !.paused = is_paused,
                                      !.outside = OutsideBox(creep, point),
                                      !.inside = PointIsInside(creep, point, opaque)]

Next ==
    \/ \E dt \in DTs, thr \in Thresholds, k \in -1..1 : Update(dt, thr, k)
    \/ \E in \in ClickInputs, is_paused \in BOOLEAN : Click(in[1], is_paused, in[2])

Spec == Init /\ [][Next]_vars


\* ------------------------------------------- the end-to-end bounce scenario
\* a creep at (100, 100) heading (1, 0) with its turn counter at 0, in a
\* field whose inset right edge is at x = 120 for the unrotated sprite
ScenarioField ==
    [left |-> 80, top |-> 80,
     width |-> 40 + BaseW - BaseW \div 2, height |-> 40 + BaseH - BaseH \div 2]
ScenarioDTs == {500}

ScenarioInit ==
    /\ creep = NewCreep(ScenarioField, <<BaseW, BaseH>>, <<100, 100>>, <<1, 0>>)
    /\ last = NoCall
    /\ updates = 0
    /\ GameStart

\* the update of the scenario, then frames as in Spec
ScenarioNext ==
    \/ \E dt \in (IF updates = 0 THEN ScenarioDTs ELSE DTs),
          thr \in Thresholds, k \in -1..1 : Update(dt, thr, k)
    \/ \E in \in ClickInputs, is_paused \in BOOLEAN : Click(in[1], is_paused, in[2])

ScenarioSpec == ScenarioInit /\ [][ScenarioNext]_vars

\* ------------------------------------------- update called again and again
\* update of a creep that is EXPLODING or DEAD, outside the cap on the
\* calls: the cap is there to keep the positions of an ALIVE creep finite,
\* and these updates move nothing and draw no random number
LateUpdate(dt) ==
    /\ creep.state # ALIVE
    /\ creep' = CreepUpdate(creep, dt, TurnLow, 0)
    /\ last' = [NoCall EXCEPT !.op = "update", !.dt = dt]
    /\ UNCHANGED updates
    /\ UNCHANGED gamevars

LiveNext ==
    \/ \E dt \in DTs, thr \in Thresholds, k \in -1..1 : Update(dt, thr, k)
    \/ \E dt \in DTs : LateUpdate(dt)
    \/ \E in \in ClickInputs, is_paused \in BOOLEAN : Click(in[1], is_paused, in[2])

\* one creep, created in the middle of the field
LiveInit ==
    /\ creep = NewCreep(FIELD_RECT, <<BaseW, BaseH>>,
                        <<FieldLeft + FieldW \div 2, FieldTop + FieldH \div 2>>,
                        <<1, 1>>)
    /\ last = NoCall
    /\ updates = 0
    /\ GameStart

\* the main loop calls update in every frame that is not paused
LiveSpec ==
    /\ LiveInit
    /\ [][LiveNext]_vars
    /\ WF_vars(\E dt \in DTs : LateUpdate(dt))


\* ---------------------------------------------------------- the game loop
MaxFrames == 4

\* clock.tick(50) returns the milliseconds since the last frame
GameDTs == {500}
\* the draws of randint(400, 500) and randint(-1, 1) in the frames of the game
GameThresholds == {TurnHigh}
GameTurns == {0, 1}

\* the sprites of the group
InGroup(cs) == {i \in DOMAIN cs : cs[i].in_group}

\* whole seconds of cumulative_time, taken while there are creeps; this one
\* goes on counting when the group is empty
LastTimeAlways(cs, cumulative, previous) ==
    (cumulative - (cumulative % 1000)) \div 1000

\* last_time = (cumulative_time - cumulative_time % 1000) / 1000, assigned
\* if len(creeps) != 0
LastTime(cs, cumulative, previous) ==
    IF InGroup(cs) # {}
    THEN (cumulative - (cumulative % 1000)) \div 1000
    ELSE previous

\* creep.update with the turn counter kept in the class, where every creep
\* reads the value the last update left
UpdateOneSharedCounter(cs, i, dt, thr, k) ==
    LET u == CreepUpdate(cs[i], dt, thr, k)
    IN  [j \in DOMAIN cs |->
            IF j = i THEN u ELSE [cs[j] EXCEPT !.counter = u.counter]]

\* creep.update(time_passed) on one creep of the group: _counter is a class
\* attribute, and self._counter += time_passed gives the creep its own
UpdateOne(cs, i, dt, thr, k) ==
    [cs EXCEPT ![i] = CreepUpdate(cs[i], dt, thr, k)]

\* for creep in creeps: creep.update(time_passed), over the sprites the
\* group holds when the loop starts
RECURSIVE UpdateEach(_, _, _, _, _)
UpdateEach(cs, ids, dt, thr, k) ==
    IF ids = {} THEN cs
    ELSE LET i == CHOOSE i \in ids : TRUE
         IN  UpdateEach(UpdateOne(cs, i, dt, thr[i], k[i]), ids \ {i},
                        dt, thr, k)

\* the update loop run in paused frames too
UpdateCreepsWhilePaused(cs, is_paused, dt, thr, k) ==
    UpdateEach(cs, InGroup(cs), dt, thr, k)

\* if not paused: ... for creep in creeps: creep.update(time_passed)
UpdateCreeps(cs, is_paused, dt, thr, k) ==
    IF is_paused THEN cs ELSE UpdateEach(cs, InGroup(cs), dt, thr, k)

\* for creep in creeps: creep.mouse_click_event(pos, paused); opaque is the
\* set of creeps whose image has alpha > 0 under the point
ClickCreeps(cs, point, is_paused, opaque) ==
    [i \in DOMAIN cs |->
        IF cs[i].in_group
        THEN MouseClickEvent(cs[i], point, is_paused, i \in opaque)
        ELSE cs[i]]

\* the creeps of the group the click is inside of
HitCreeps(cs, point, opaque) ==
    {i \in InGroup(cs) : PointIsInside(cs[i], point, i \in opaque)}

\* mouse positions: the top left pixel of the sprite of a creep of the
\* group, and the top left pixel of the screen
GameClickPoints ==
    {SpriteOrigin(creeps[i]) :
        i \in {j \in InGroup(creeps) : creeps[j].image_size # NoSize}}
    \cup {<<0, 0>>}

\* time_passed = clock.tick(50); cumulative_time += time_passed; last_time
Tick(dt) ==
    /\ step = "tick"
    /\ frames < MaxFrames
    /\ frames' = frames + 1
    /\ time_passed' = dt
    /\ cumulative_time' = cumulative_time + dt
    /\ last_time' = LastTime(creeps, cumulative_time + dt, last_time)
    /\ step' = "events"
    /\ event' = [NoEvent EXCEPT !.op = "tick"]
    /\ UNCHANGED <<creeps, paused, time_msg>>
    /\ UNCHANGED <<creep, last, updates>>

\* pygame.QUIT: exit_game()
Quit ==
    /\ step = "events"
    /\ step' = "exited"
    /\ event' = [NoEvent EXCEPT !.op = "quit"]
    /\ UNCHANGED <<creeps, paused, time_passed, cumulative_time, last_time,
                   time_msg, frames>>
    /\ UNCHANGED <<creep, last, updates>>

\* pygame.KEYDOWN with K_SPACE: paused = not paused
KeySpace ==
    /\ step = "events"
    /\ paused' = ~paused
    /\ event' = [NoEvent EXCEPT !.op = "space"]
    /\ UNCHANGED <<creeps, time_passed, cumulative_time, last_time, time_msg,
                   frames, step>>
    /\ UNCHANGED <<creep, last, updates>>

\* pygame.MOUSEBUTTONDOWN with the left button: every creep of the group
\* gets the click; before the first update the creeps have no image_w, the
\* first call raises AttributeError and the program ends
MouseButtonDown(point, opaque) ==
    /\ step = "events"
    /\ IF \E i \in InGroup(creeps) : creeps[i].image_size = NoSize
       THEN /\ step' = "crashed"
            /\ event' = [NoEvent EXCEPT !.op = "click"]
            /\ UNCHANGED creeps
       ELSE /\ creeps' = ClickCreeps(creeps, point, paused, opaque)
            /\ event' = [op |-> "click",
                         who |-> HitCreeps(creeps, point, opaque)]
            /\ UNCHANGED step
    /\ UNCHANGED <<paused, time_passed, cumulative_time, last_time, time_msg,
                   frames>>
    /\ UNCHANGED <<creep, last, updates>>

\* the rest of the frame: if not paused, the message board is drawn with
\* last_time and every creep of the group is updated and drawn
UpdateAll(thr, k) ==
    /\ step = "events"
    /\ creeps' = UpdateCreeps(creeps, paused, time_passed, thr, k)
    /\ time_msg' = IF paused THEN time_msg ELSE last_time
    /\ step' = "tick"
    /\ event' = [op |-> "update",
                 who |-> IF paused THEN {} ELSE InGroup(creeps)]
    /\ UNCHANGED <<paused, time_passed, cumulative_time, last_time, frames>>
    /\ UNCHANGED <<creep, last, updates>>

GameInit ==
    /\ creep = NewCreep(FIELD_RECT, <<BaseW, BaseH>>,
                        <<FieldLeft + FieldW \div 2, FieldTop + FieldH \div 2>>,
                        <<1, 1>>)
    /\ last = NoCall
    /\ updates = 0
    /\ GameStart

GameNext ==
    \/ \E dt \in GameDTs : Tick(dt)
    \/ Quit
    \/ KeySpace
    \/ \E point \in GameClickPoints, opaque \in SUBSET CreepIds :
          MouseButtonDown(point, opaque)
    \/ \E thr \in [CreepIds -> GameThresholds], k \in [CreepIds -> GameTurns] :
          UpdateAll(thr, k)

GameSpec == GameInit /\ [][GameNext]_vars

\* ------------------------------------------ update calls on two creeps
\* creep.update(time_passed) on one creep of the group, the calls on the
\* creeps in any order
UpdateCreep(i, dt, thr, k) ==
    /\ updates < MaxUpdates
    /\ updates' = updates + 1
    /\ creeps' = UpdateOne(creeps, i, dt, thr, k)
    /\ event' = [op |-> "creep_update", who |-> {i}]
    /\ UNCHANGED <<paused, time_passed, cumulative_time, last_time, time_msg,
                   frames, step>>
    /\ UNCHANGED <<creep, last>>

PairNext ==
    \E i \in CreepIds, dt \in DTs, thr \in Thresholds, k \in -1..1 :
        UpdateCreep(i, dt, thr, k)

PairSpec == GameInit /\ [][PairNext]_vars


\* ------------------------------------------------------------- the claims
\* what the last call was
UpdatedAlive == last.op = "update" /\ creep.state = ALIVE
UnpausedHit == last.op = "click" /\ last.inside /\ ~last.paused

\* the inset bounds update tested the position against
InsetBounds == Inflate(creep.field, -creep.image_size[1], -creep.image_size[2])
InsetX(p) == ~CoordLt(p.x, InsetBounds.left) /\ ~CoordGt(p.x, RectRight(InsetBounds))
InsetY(p) == ~CoordLt(p.y, InsetBounds.top) /\ ~CoordGt(p.y, RectBottom(InsetBounds))

\* C1: every call leaves the state as it is or moves it ALIVE -> EXPLODING
\* or EXPLODING -> DEAD; nothing leaves DEAD, nothing goes back, and ALIVE
\* never becomes DEAD in one call.
C1_StateOrder ==
    [][\/ creep'.state = creep.state
       \/ creep.state = ALIVE /\ creep'.state = EXPLODING
       \/ creep.state = EXPLODING /\ creep'.state = DEAD]_vars

\* C2: a creep with health 0 is not ALIVE.
C2_ZeroHealthNotAlive == creep.health = 0 => creep.state # ALIVE
C2_Witness == creep.health = 0 /\ creep.state = EXPLODING /\ UnpausedHit

\* C3: health starts at 15 and stays in 0..15; an unpaused hit lowers it by
\* min(3, health), and no other call changes it.
C3_HealthSteps ==
    /\ creep.health = 15
    /\ [](creep.health \in 0..15)
    /\ [][IF UnpausedHit'
          THEN creep'.health = creep.health
                               - (IF creep.health < 3 THEN creep.health ELSE 3)
          ELSE creep'.health = creep.health]_vars
C3_Witness == creep.health = 3 /\ UnpausedHit

\* C4: the unpaused hit that takes an ALIVE creep's health to 0 leaves the
\* creep EXPLODING, with a fresh animation of 100 ms a frame and a 300 ms
\* start delay.
C4_ExplodesOnLastHit ==
    [][(creep.state = ALIVE /\ UnpausedHit' /\ creep'.health = 0)
       => /\ creep'.state = EXPLODING
          /\ creep'.explode_animation.exists
          /\ creep'.explode_animation.active
          /\ creep'.explode_animation.frame_ms = 100
          /\ creep'.explode_animation.delay_ms = 300]_vars
C4_Witness ==
    /\ UnpausedHit /\ creep.state = EXPLODING /\ creep.in_group
    /\ creep.explode_animation.elapsed = 0

\* C5: a click while paused leaves every field of the creep as it was.
C5_PausedClickNoEffect ==
    [][(last'.op = "click" /\ last'.paused) => creep' = creep]_vars
C5_Witness ==
    /\ last.op = "click" /\ last.paused /\ last.inside
    /\ creep.state = ALIVE /\ creep.health < 15

\* C6, as stated: after update on an ALIVE creep the position is inside the
\* inset bounds on both axes.
C6_InsideInset == UpdatedAlive => InsetX(creep.pos) /\ InsetY(creep.pos)

\* C6, amended: after update on an ALIVE creep position.x is inside the
\* inset X range, and position.y is inside the inset Y range whenever the
\* displaced position.x needed no correction.
C6_InsideInsetOneAxis ==
    UpdatedAlive => /\ InsetX(creep.pos)
                    /\ InsetX(last.displaced) => InsetY(creep.pos)
C6_Witness ==
    UpdatedAlive /\ InsetX(last.displaced) /\ ~InsetY(last.displaced)

\* C7: update corrects one axis at most, X first: an X violation clamps
\* position.x to the edge and negates heading.x, leaving position.y and
\* heading.y as displaced; Y is clamped and heading.y negated only when X
\* is in range.
C7_OneAxisXFirst ==
    UpdatedAlive =>
        LET b == InsetBounds
            d == last.displaced
            h == last.heading
        IN  IF ~InsetX(d)
            THEN /\ creep.pos.x = CoordOf(IF CoordLt(d.x, b.left) THEN b.left
                                          ELSE RectRight(b))
                 /\ creep.direction.x = CNeg(h.x)
                 /\ creep.pos.y = d.y
                 /\ creep.direction.y = h.y
            ELSE /\ creep.pos.x = d.x
                 /\ creep.direction.x = h.x
                 /\ IF ~InsetY(d)
                    THEN /\ creep.pos.y = CoordOf(IF CoordLt(d.y, b.top) THEN b.top
                                                  ELSE RectBottom(b))
                         /\ creep.direction.y = CNeg(h.y)
                    ELSE creep.pos.y = d.y /\ creep.direction.y = h.y
C7_Witness ==
    UpdatedAlive /\ ~InsetX(last.displaced) /\ ~InsetY(last.displaced)

\* C8: a creep that is EXPLODING or DEAD never becomes ALIVE again and no
\* call changes its position or health; so from the first DEAD state on,
\* position and health are fixed.
C8_DeadIsInert ==
    [][creep.state # ALIVE
       => /\ creep'.state # ALIVE
          /\ creep'.pos = creep.pos
          /\ creep'.health = creep.health]_vars
C8_Witness == ~creep.in_group /\ UnpausedHit /\ creep.health = 0

\* C9: the heading of an ALIVE creep has length 1 and is one of the eight
\* directions at a multiple of 45 degrees.
EightDirections ==
    {[x |-> <<2 * v[1], 0>>, y |-> <<2 * v[2], 0>>] :
        v \in {<<1, 0>>, <<-1, 0>>, <<0, 1>>, <<0, -1>>}}
    \cup {[x |-> <<0, v[1]>>, y |-> <<0, v[2]>>] : v \in {-1, 1} \X {-1, 1}}
C9_UnitHeading ==
    creep.state = ALIVE => /\ UnitLength(creep.direction)
                           /\ creep.direction \in EightDirections
C9_Witness ==
    /\ UpdatedAlive /\ last.turned
    /\ last.heading.y = <<0, 0>> /\ creep.direction.x # last.heading.x

C11_OutsideIsMiss ==
    [][(last'.op = "click" /\ last'.outside)
       => /\ ~last'.raised
          /\ creep'.health = creep.health
          /\ creep'.state = creep.state]_vars

\* C13, as stated: no update returns with the creep EXPLODING and its
\* animation inactive.
C13_DeadSameCall ==
    (last.op = "update" /\ creep.state = EXPLODING)
        => creep.explode_animation.active

\* C13, amended: update of an EXPLODING creep whose animation is active
\* passes dt to the animation and leaves the creep EXPLODING, even when
\* that ends the animation; update of an EXPLODING creep whose animation
\* is already inactive makes it DEAD and removes it.
C13_DeadOneCallLater ==
    [][(creep.state = EXPLODING /\ last'.op = "update")
       => IF creep.explode_animation.active
          THEN /\ creep'.state = EXPLODING
               /\ creep'.explode_animation.elapsed
                      = creep.explode_animation.elapsed + last'.dt
               /\ creep'.in_group = creep.in_group
          ELSE /\ creep'.state = DEAD
               /\ ~creep'.in_group
               /\ creep'.explode_animation = creep.explode_animation]_vars
C13_Witness ==
    /\ last.op = "update" /\ creep.state = DEAD
    /\ creep.explode_animation.exists /\ ~creep.explode_animation.active

\* C14: a click changes nothing of the creep but its health, its state and
\* its animation, and the last two only when health is 0 after it.
C14_ClickFrame ==
    [][last'.op = "click"
       => /\ creep' = [creep EXCEPT !.health = creep'.health,
                                    !.state = creep'.state,
                                    !.explode_animation = creep'.explode_animation]
          /\ (creep'.state # creep.state
              \/ creep'.explode_animation # creep.explode_animation)
             => creep'.health = 0]_vars
C14_Witness ==
    /\ UnpausedHit /\ creep.state = EXPLODING /\ creep.counter > 0
    /\ creep.explode_animation.elapsed = 0

\* C17: once a creep has an animation no call replaces it or takes its
\* elapsed time back.
C17_AnimationOnce ==
    [][creep.explode_animation.exists
       => /\ creep'.explode_animation.exists
          /\ creep'.explode_animation.elapsed
                 >= creep.explode_animation.elapsed]_vars

\* C12, as stated: in the scenario the first update, of 500 ms, ends with
\* position.x = 120 and heading.x = -1 whatever the random draws.
C12_BounceAlways ==
    (updates = 1 /\ last.op = "update")
        => creep.pos.x = CoordOf(120) /\ creep.direction.x = <<-2, 0>>

\* C12, amended: the first update ends with position.x = 120 and
\* heading.x = -1 whenever its random draws leave the heading at (1, 0):
\* no turn, or a turn of 0 degrees.
C12_BounceIfHeadingKept ==
    (updates = 1 /\ last.op = "update"
     /\ last.heading = [x |-> <<2, 0>>, y |-> <<0, 0>>])
        => creep.pos.x = CoordOf(120) /\ creep.direction.x = <<-2, 0>>
C12_Witness ==
    /\ updates = 1 /\ last.op = "update" /\ last.turned
    /\ last.heading = [x |-> <<2, 0>>, y |-> <<0, 0>>]
    /\ last.displaced.x = CoordOf(125)

\* C18: a creep that is EXPLODING is DEAD some time later, when update is
\* called again and again.
C18_ExplodingDies == (creep.state = EXPLODING) ~> (creep.state = DEAD)

\* C15: an update call on one creep of the group leaves every other creep
\* as it was: turn counter, heading, position, health, state and the rest.
C15_OwnTimer ==
    [][\A i \in CreepIds :
          (event'.op = "creep_update" /\ event'.who = {i})
              => \A j \in CreepIds \ {i} : creeps'[j] = creeps[j]]_vars
C15_Witness ==
    /\ event.op = "creep_update"
    /\ \E i \in event.who, j \in CreepIds \ event.who :
          /\ creeps[i].image_size # NoSize /\ creeps[i].counter = 0
          /\ creeps[j].image_size # NoSize /\ creeps[j].counter > 0

\* C16: in the game loop is_alive is true exactly in the states ALIVE and
\* EXPLODING, every creep of the group has is_alive true, and every creep
\* that is ALIVE or EXPLODING is in the group.
C16_GroupIsTheLiving ==
    \A i \in CreepIds :
        /\ is_alive(creeps[i]) <=> creeps[i].state \in {ALIVE, EXPLODING}
        /\ creeps[i].in_group <=> is_alive(creeps[i])
C16_Witness ==
    /\ step = "tick" /\ event.op = "update"
    /\ \E i, j \in CreepIds :
          /\ creeps[i].state = DEAD /\ ~creeps[i].in_group
          /\ creeps[j].state = EXPLODING /\ creeps[j].in_group

\* C19: while paused is true no step of the game loop changes a creep or
\* the group.
C19_PausedFreezes == [][paused => creeps' = creeps]_vars
C19_Witness ==
    /\ paused /\ event.op = "update" /\ step = "tick"
    /\ \E i \in InGroup(creeps) :
          /\ creeps[i].state = EXPLODING
          /\ creeps[i].explode_animation.elapsed = 0
    /\ \E i \in InGroup(creeps) : creeps[i].state = ALIVE

\* C20: the seconds on the message board never go down, last_time and the
\* board stay as they are once the group is empty, and no creep joins the
\* group.
C20_TimeAndGroup ==
    [][/\ last_time' >= last_time
       /\ time_msg # NoMessage => time_msg' >= time_msg
       /\ InGroup(creeps) = {}
              => last_time' = last_time /\ time_msg' = time_msg
       /\ InGroup(creeps') \subseteq InGroup(creeps)]_vars
C20_Witness ==
    /\ InGroup(creeps) = {} /\ event.op = "tick"
    /\ cumulative_time \div 1000 > last_time
    /\ time_msg = last_time

=============================================================================
